---------------------------- MODULE Spec2Model ----------------------------
(***************************************************************************)
(* Social login (OAuth 2.0 authorization-code flow) of                     *)
(* src/src/app/services/oauth.py, its routes in src/src/app/routes/auth.py *)
(* and the session middleware set up in src/src/main.py.                   *)
(*                                                                         *)
(* The session is the dict of the three keys the application keeps in it   *)
(* (oauth_state, redirect_path, user); what authlib stores there for       *)
(* itself is left out.                                                     *)
(*                                                                         *)
(* Python values are modelled as functions with string domains, so that    *)
(* any two of them can be compared: None is a tagged record, a str is a    *)
(* tagged record holding its text, a dict is a function from its keys.     *)
(*                                                                         *)
(* Two specifications:                                                     *)
(*   Spec      route handlers called one after the other on one session    *)
(*             object (the way tests/test_oauth_service.py drives the      *)
(*             service with a MockRequest whose session is a dict);        *)
(*   SpecHttp  overlapping HTTP requests of one browser, each with the     *)
(*             session the SessionMiddleware decodes from the cookie.      *)
(***************************************************************************)
EXTENDS Naturals, Sequences, FiniteSets, TLC

(* Number of distinct values os.urandom(16) is drawn from in the model. *)
MaxStates == 3

(* Number of overlapping requests of one browser in SpecHttp. *)
MaxRequests == 2

VARIABLES
  session,   \* Spec: request.session, the dict the handlers read and write
  call,      \* Spec: the running (or last finished) handler call
  replayed,  \* Spec: the query parameters of the callbacks that finished
             \*       since the last call of social_login
  redirected, \* Spec: the state carried by the last authorization redirect,
             \*       None once a callback has finished or a social_login or
             \*       logout has started after it
  issued,    \* how many state tokens os.urandom has produced so far
  cookie,    \* SpecHttp: the session in the browser's session cookie
  reqs       \* SpecHttp: the requests in flight, each with its own session

vars == <<session, call, replayed, redirected, issued, cookie, reqs>>

-----------------------------------------------------------------------------
(* Python values *)

None == [type |-> "NoneType"]

Str(text) == [type |-> "str", value |-> text]

EmptyDict == [k \in {} |-> None]

(* bool(x) for the values that occur: None, "" and {} are falsy. *)
Truthy(x) == x # None /\ x # Str("") /\ x # EmptyDict

(* d.get(k) and d.get(k, default) *)
Get(d, k) == IF k \in DOMAIN d THEN d[k] ELSE None

(* d[k] = v *)
Put(d, k, v) == [x \in (DOMAIN d) \cup {k} |-> IF x = k THEN v ELSE d[x]]

(* d.pop(k, default): the dict that is left *)
Pop(d, k) == [x \in (DOMAIN d) \ {k} |-> d[x]]

(* d.pop(k, default): the value returned *)
PopValue(d, k, default) == IF k \in DOMAIN d THEN d[k] ELSE default

-----------------------------------------------------------------------------
(* Providers and clients *)

OAuthProvider == {"google", "facebook", "linkedin"}

(* A provider value no client is registered for: the service's            *)
(* "if not oauth_client" branches are taken only for such a value.         *)
UnregisteredProvider == "twitter"

ProviderArgs == OAuthProvider \cup {UnregisteredProvider}

(* self.clients: provider value -> registered client *)
clients == [p \in OAuthProvider |-> [name |-> p]]

HTTP_400_BAD_REQUEST == 400

HTTPException(status_code, detail) ==
  [type |-> "HTTPException", status_code |-> status_code, detail |-> detail]

(* What a library call raises when the upstream call fails: an authlib    *)
(* OAuthError or an httpx transport error, neither an HTTPException.      *)
UpstreamError(kind) == [type |-> kind]

IsHTTPException(e) == e # None /\ e.type = "HTTPException"

RedirectResponse(url, status_code) ==
  [type |-> "RedirectResponse", status_code |-> status_code, location |-> url]

TemplateResponse(name, user) ==
  [type |-> "TemplateResponse", template |-> name, user |-> user]

-----------------------------------------------------------------------------
(* A handler call: its arguments, its position, its locals, its outcome.  *)
(* entry is the session the call started from; steps lists what ran.      *)

NewCall(op, provider, redirect_path, query_params, s) ==
  [op |-> op, pc |-> "start", provider |-> provider,
   redirect_path |-> redirect_path, query_params |-> query_params,
   entry |-> s, state |-> None, token_reply |-> None, token |-> None,
   user_data |-> None, exc |-> None, response |-> None, steps |-> <<>>]

NoCall ==
  [NewCall("none", "none", None, EmptyDict, EmptyDict) EXCEPT !.pc = "done"]

Did(f, step) == [f EXCEPT !.steps = Append(@, step)]

Count(seq, x) == Cardinality({i \in DOMAIN seq : seq[i] = x})

(* request.url_for(name, ...) *)
url_for(name, provider) ==
  IF name = "auth_callback" THEN Str("/auth/" \o provider \o "/callback")
  ELSE Str("/" \o name)

(* os.urandom(16).hex(): the n-th value drawn. The values drawn are taken *)
(* to be pairwise distinct (128 random bits).                              *)
urandom_hex(n) == Str("state" \o ToString(n))

StateTokens == {urandom_hex(n) : n \in 1..MaxStates}

-----------------------------------------------------------------------------
(* What the providers' endpoints can answer. *)

TokenJson == [access_token |-> Str("mock_token")]

TokenEndpointReplies ==
  { [kind |-> "response", status_code |-> 200, text |-> "token"],
    [kind |-> "response", status_code |-> 400, text |-> "invalid_grant"],
    [kind |-> "response", status_code |-> 500, text |-> "server_error"],
    [kind |-> "error", status_code |-> 0, text |-> "timeout"] }

Profile1 == [id |-> Str("12345"), email |-> Str("test@example.com")]
Profile2 == [id |-> Str("67890"), email |-> Str("other@example.com"),
             locale |-> Str("en")]
ProfileNoId == [email |-> Str("test@example.com")]

UserInfoBodies == {Profile1, Profile2, ProfileNoId, EmptyDict}

UserInfoReplies ==
  { [kind |-> "response", status_code |-> 200, json |-> b] : b \in UserInfoBodies }
  \cup { [kind |-> "response", status_code |-> 401, json |-> EmptyDict],
         [kind |-> "error", status_code |-> 0, json |-> EmptyDict] }

-----------------------------------------------------------------------------
(* OAuthService, src/src/app/services/oauth.py *)

(* A step of a call gives the call and the session it leaves. *)
Step(f, s) == [f |-> f, s |-> s]

(* raise e out of the service: the call is over. *)
Raise(f, s, e) == Step([f EXCEPT !.pc = "done", !.exc = e], s)

(* return r *)
Return(f, s, r) == Step([f EXCEPT !.pc = "done", !.response = r], s)

(* request.session.setdefault("redirect_path", redirect_path): a path    *)
(* stored earlier stays.                                                   *)
StoreRedirectPath_KeepFirst(s, redirect_path) ==
  IF Truthy(redirect_path) /\ "redirect_path" \notin DOMAIN s
  THEN Put(s, "redirect_path", redirect_path) ELSE s

(* The redirect path set, or removed when none is given. *)
StoreRedirectPath_Reset(s, redirect_path) ==
  IF Truthy(redirect_path) THEN Put(s, "redirect_path", redirect_path)
  ELSE Pop(s, "redirect_path")

(* if redirect_path: request.session["redirect_path"] = redirect_path *)
StoreRedirectPath(s, redirect_path) ==
  IF Truthy(redirect_path) THEN Put(s, "redirect_path", redirect_path) ELSE s

(* request.session.setdefault("oauth_state", state): a pending state stays. *)
StoreState_KeepPending(s, state) ==
  IF "oauth_state" \in DOMAIN s THEN s ELSE Put(s, "oauth_state", state)

(* request.session["oauth_state"] = state *)
StoreState(s, state) == Put(s, "oauth_state", state)

(* authorize_redirect called without state=state: authlib generates the  *)
(* state of the redirect itself.                                           *)
authorize_redirect_OwnState(f, s, redirect_uri, state, ok) ==
  IF ok
  THEN Return(f, s, [RedirectResponse(Str("authorize:" \o f.provider), 302)
                       EXCEPT !.location = [url |-> @, state |-> Str("authlib"),
                                            redirect_uri |-> redirect_uri]])
  ELSE Raise(f, s, UpstreamError("OAuthError"))

(* oauth_client.authorize_redirect(request, redirect_uri, state=state):    *)
(* a 302 to the provider's authorization page that carries the state, or   *)
(* an error of the library when the provider's metadata cannot be loaded.  *)
authorize_redirect(f, s, redirect_uri, state, ok) ==
  IF ok
  THEN Return(f, s, [RedirectResponse(Str("authorize:" \o f.provider), 302)
                       EXCEPT !.location = [url |-> @, state |-> state,
                                            redirect_uri |-> redirect_uri]])
  ELSE Raise(f, s, UpstreamError("OAuthError"))

(* initiate_social_login that drops the user before a new login starts. *)
initiate_social_login_DropsUser(f, s, n, ok) ==
  LET oauth_client == Get(clients, f.provider) IN
  IF ~Truthy(oauth_client)
  THEN Raise(f, s, HTTPException(HTTP_400_BAD_REQUEST,
                                 "Unsupported provider: " \o f.provider))
  ELSE LET s1 == StoreRedirectPath(Pop(s, "user"), f.redirect_path)
           redirect_uri == url_for("auth_callback", f.provider)
           state == urandom_hex(n)
           s2 == StoreState(s1, state)
       IN authorize_redirect([Did(f, "state_stored") EXCEPT !.state = state],
                             s2, redirect_uri, state, ok)

(* initiate_social_login: n is the number of the value os.urandom gives. *)
initiate_social_login(f, s, n, ok) ==
  LET oauth_client == Get(clients, f.provider) IN
  IF ~Truthy(oauth_client)
  THEN Raise(f, s, HTTPException(HTTP_400_BAD_REQUEST,
                                 "Unsupported provider: " \o f.provider))
  ELSE LET s1 == StoreRedirectPath(s, f.redirect_path)
           redirect_uri == url_for("auth_callback", f.provider)
           state == urandom_hex(n)
           s2 == StoreState(s1, state)
       IN authorize_redirect([Did(f, "state_stored") EXCEPT !.state = state],
                             s2, redirect_uri, state, ok)

(* get_token that logs a failed exchange and returns None for the token. *)
get_token_ReturnsNone(f, s, reply) ==
  LET g == [Did(f, "token_exchange") EXCEPT !.token_reply = reply] IN
  IF reply.kind = "response" /\ reply.status_code = 200
  THEN Step([g EXCEPT !.pc = "fetch_user_data", !.token = TokenJson], s)
  ELSE Step([g EXCEPT !.pc = "fetch_user_data"], s)

(* get_token: reply is what the provider's token endpoint answers. For     *)
(* LinkedIn the service posts to the endpoint itself and raises an         *)
(* HTTPException for a status other than 200; a transport error of httpx   *)
(* is not caught. For the others authlib's authorize_access_token returns  *)
(* the token or raises its own OAuthError.                                 *)
get_token(f, s, reply) ==
  LET g == [Did(f, "token_exchange") EXCEPT !.token_reply = reply] IN
  IF f.provider = "linkedin"
  THEN IF reply.kind = "error"
       THEN Raise(g, s, UpstreamError("httpx.TransportError"))
       ELSE IF reply.status_code # 200
       THEN Raise(g, s, HTTPException(HTTP_400_BAD_REQUEST,
                          "Failed to fetch access token: " \o reply.text))
       ELSE Step([g EXCEPT !.pc = "fetch_user_data", !.token = TokenJson], s)
  ELSE IF reply.kind = "response" /\ reply.status_code = 200
       THEN Step([g EXCEPT !.pc = "fetch_user_data", !.token = TokenJson], s)
       ELSE Raise(g, s, UpstreamError("OAuthError"))

(* fetch_user_data: the body of a 200 answer, None for any other answer    *)
(* and for any exception.                                                  *)
fetch_user_data(oauth_client, token, reply) ==
  IF reply.kind = "error" THEN None
  ELSE IF reply.status_code = 200 THEN reply.json
  ELSE None

(* The check without "not stored_state": None passes against None. *)
StateCheckFails_NoneEqualsNone(stored_state, received_state) ==
  stored_state # received_state

(* The check that only compares a state that is stored. *)
StateCheckFails_AbsentAccepted(stored_state, received_state) ==
  Truthy(stored_state) /\ stored_state # received_state

(* stored_state, received_state: not stored_state or stored != received *)
StateCheckFails(stored_state, received_state) ==
  ~Truthy(stored_state) \/ stored_state # received_state

(* The stored state left in the session. *)
ConsumeState_Keep(s) == s

(* request.session.pop("oauth_state", None) *)
ConsumeState(s) == Pop(s, "oauth_state")

(* The state check that logs its warning and goes on (no raise). *)
handle_oauth_callback_WarnOnly(f, s) ==
  LET g == Did(f, "state_check")
      s1 == ConsumeState(s)
      oauth_client == Get(clients, f.provider)
  IN IF ~Truthy(oauth_client)
     THEN Raise(g, s1, HTTPException(HTTP_400_BAD_REQUEST, "Invalid provider"))
     ELSE Step([g EXCEPT !.pc = "get_token"], s1)

(* handle_oauth_callback up to its first await: the state check, the pop  *)
(* of the stored state, the lookup of the client.                          *)
handle_oauth_callback(f, s) ==
  LET stored_state == Get(s, "oauth_state")
      received_state == Get(f.query_params, "state")
      g == Did(f, "state_check")
  IN IF StateCheckFails(stored_state, received_state)
     THEN Raise(g, s, HTTPException(HTTP_400_BAD_REQUEST,
                                    "Invalid state parameter."))
     ELSE LET s1 == ConsumeState(s)
              oauth_client == Get(clients, f.provider)
          IN IF ~Truthy(oauth_client)
             THEN Raise(g, s1, HTTPException(HTTP_400_BAD_REQUEST,
                                             "Invalid provider"))
             ELSE Step([g EXCEPT !.pc = "get_token"], s1)

(* user_data = await self.fetch_user_data(oauth_client, token) *)
handle_fetch_user_data(f, s, reply) ==
  Step([Did(f, "profile_fetch") EXCEPT
          !.pc = "store_user",
          !.user_data = fetch_user_data(Get(clients, f.provider), f.token, reply)],
       s)

(* request.session.setdefault("user", user_data): an earlier user stays. *)
StoreUser_KeepExisting(s, user_data) ==
  IF "user" \in DOMAIN s THEN s ELSE Put(s, "user", user_data)

(* request.session["user"] = user_data *)
StoreUser(s, user_data) == Put(s, "user", user_data)

(* The session write done before user_data is checked. *)
handle_user_data_WriteFirst(f, s) ==
  LET s1 == Put(s, "user", f.user_data)
      redirect_path == PopValue(s1, "redirect_path", Str("/success"))
      s2 == Pop(s1, "redirect_path")
  IN IF ~Truthy(f.user_data)
     THEN Raise(f, s2, HTTPException(HTTP_400_BAD_REQUEST,
                                     "Failed to fetch user data."))
     ELSE Return(Did(f, "session_write"), s2, RedirectResponse(redirect_path, 307))

(* handle_oauth_callback after fetch_user_data returned *)
handle_user_data(f, s) ==
  IF ~Truthy(f.user_data)
  THEN Raise(f, s, HTTPException(HTTP_400_BAD_REQUEST,
                                 "Failed to fetch user data."))
  ELSE LET s1 == StoreUser(s, f.user_data)
           redirect_path == PopValue(s1, "redirect_path", Str("/success"))
           s2 == Pop(s1, "redirect_path")
       IN Return(Did(f, "session_write"), s2, RedirectResponse(redirect_path, 307))

-----------------------------------------------------------------------------
(* Routes, src/src/app/routes/auth.py *)

(* social_login: an HTTPException of the service is logged and raised on. *)
social_login(r) == r

(* auth_callback: an HTTPException of the service becomes a redirect to   *)
(* the failure page; any other exception leaves the route.                 *)
auth_callback(r) ==
  IF r.f.pc = "done" /\ IsHTTPException(r.f.exc)
  THEN Step([r.f EXCEPT !.response =
                RedirectResponse(url_for("failure", r.f.provider), 307)], r.s)
  ELSE r

(* success without the check of user_data: the page in any case. *)
success_NoCheck(f, s) ==
  Return(f, s, TemplateResponse("success.html", Get(s, "user")))

(* success: the page for a session with a user, else a redirect. *)
success(f, s) ==
  LET user_data == Get(s, "user") IN
  IF ~Truthy(user_data)
  THEN Return(f, s, RedirectResponse(Str("/failure"), 307))
  ELSE Return(f, s, TemplateResponse("success.html", user_data))

(* index: the page, with the user if there is one. *)
index(f, s) == Return(f, s, TemplateResponse("index.html", Get(s, "user")))

(* request.session.pop("user", None): only the user is removed. *)
logout_PopUser(f, s) ==
  Return(f, Pop(s, "user"), RedirectResponse(Str("/"), 307))

(* logout: request.session.clear() *)
logout(f, s) == Return(f, EmptyDict, RedirectResponse(Str("/"), 307))

-----------------------------------------------------------------------------
(* Arguments of the requests *)

RedirectPathArgs == {None, Str(""), Str("/custom-redirect"), Str("/dashboard")}

QueryParams == {EmptyDict} \cup {[state |-> t] : t \in StateTokens}

-----------------------------------------------------------------------------
(* Spec: the handlers called one after the other on one session object. *)

(* SpecHttp: a request of the browser: the handler call, the session of  *)
(* this request (scope["session"]), and whether the answer is still owed.  *)
Request(f, s, open) == [f |-> f, s |-> s, open |-> open]

NoRequest == Request(NoCall, EmptyDict, FALSE)

Init ==
  /\ session = EmptyDict
  /\ call = NoCall
  /\ replayed = {}
  /\ redirected = None
  /\ issued = 0
  /\ cookie = EmptyDict
  /\ reqs = [r \in {} |-> NoRequest]

Idle == call.pc = "done"

(* The call moves on by a step of its handler. *)
Continue(r) ==
  /\ call' = r.f
  /\ session' = r.s
  /\ UNCHANGED <<replayed, redirected, cookie, reqs>>

(* A new call starts (and runs up to its first await) when none is running. *)
Enter(r) ==
  /\ Idle
  /\ call' = r.f
  /\ session' = r.s
  /\ replayed' = IF r.f.op = "social_login" THEN {}
                 ELSE IF call.op = "auth_callback"
                 THEN replayed \cup {call.query_params}
                 ELSE replayed
  /\ redirected' = IF r.f.op = "social_login"
                   THEN IF r.f.response # None
                        THEN r.f.response.location.state ELSE None
                   ELSE IF r.f.op = "logout" \/ call.op = "auth_callback"
                   THEN None
                   ELSE redirected
  /\ UNCHANGED <<cookie, reqs>>

(* GET /auth/{provider}?redirect_path=... *)
SocialLogin ==
  \E provider \in ProviderArgs, redirect_path \in RedirectPathArgs, ok \in BOOLEAN :
    /\ provider \in DOMAIN clients => issued < MaxStates
    /\ LET f == NewCall("social_login", provider, redirect_path, EmptyDict, session)
           r == social_login(initiate_social_login(f, session, issued + 1, ok))
       IN /\ Enter(r)
          /\ issued' = IF r.f.state # None THEN issued + 1 ELSE issued

(* GET /auth/{provider}/callback?state=... *)
AuthCallback ==
  \E provider \in ProviderArgs, query_params \in QueryParams :
    LET f == NewCall("auth_callback", provider, None, query_params, session)
    IN /\ Enter(auth_callback(handle_oauth_callback(f, session)))
       /\ UNCHANGED issued

(* token = await self.get_token(request, provider, oauth_client) *)
TokenExchange ==
  /\ call.op = "auth_callback" /\ call.pc = "get_token"
  /\ \E reply \in TokenEndpointReplies :
       Continue(auth_callback(get_token(call, session, reply)))
  /\ UNCHANGED issued

(* user_data = await self.fetch_user_data(oauth_client, token) *)
ProfileFetch ==
  /\ call.op = "auth_callback" /\ call.pc = "fetch_user_data"
  /\ \E reply \in UserInfoReplies :
       Continue(handle_fetch_user_data(call, session, reply))
  /\ UNCHANGED issued

(* the rest of handle_oauth_callback: the check of user_data, the session *)
(* write, the redirect                                                     *)
UserData ==
  /\ call.op = "auth_callback" /\ call.pc = "store_user"
  /\ Continue(auth_callback(handle_user_data(call, session)))
  /\ UNCHANGED issued

(* GET /logout *)
Logout ==
  /\ Enter(logout(NewCall("logout", "none", None, EmptyDict, session), session))
  /\ UNCHANGED issued

(* GET /success *)
Success ==
  /\ Enter(success(NewCall("success", "none", None, EmptyDict, session), session))
  /\ UNCHANGED issued

(* GET / *)
Index ==
  /\ Enter(index(NewCall("index", "none", None, EmptyDict, session), session))
  /\ UNCHANGED issued

Next ==
  \/ SocialLogin
  \/ AuthCallback
  \/ TokenExchange
  \/ ProfileFetch
  \/ UserData
  \/ Logout
  \/ Success
  \/ Index

Spec == Init /\ [][Next]_vars

-----------------------------------------------------------------------------
(* Vocabulary of the properties *)

IsCallback(f) == f.op = "auth_callback"

Done(f) == f.pc = "done"

InvalidStateError ==
  [type |-> "HTTPException", status_code |-> 400,
   detail |-> "Invalid state parameter."]

(* The call got past the state check (it reached the lookup of the client). *)
PassedStateCheck(f) ==
  IsCallback(f) /\ "state_check" \in {f.steps[i] : i \in DOMAIN f.steps}
                /\ f.exc # InvalidStateError

Ran(f, step) == step \in {f.steps[i] : i \in DOMAIN f.steps}

StateAbsent(s) == "oauth_state" \notin DOMAIN s

(* The stored state is there and the query carries another (or none). *)
StateDiffers(f) ==
  /\ ~StateAbsent(f.entry)
  /\ f.entry["oauth_state"] # Get(f.query_params, "state")

(* The stored state is there and the query carries it. *)
StateMatches(f) ==
  /\ ~StateAbsent(f.entry)
  /\ "state" \in DOMAIN f.query_params
  /\ f.entry["oauth_state"] = f.query_params["state"]

SameUserAndRedirectPath(s, t) ==
  /\ Get(s, "user") = Get(t, "user")
  /\ ("user" \in DOMAIN s) = ("user" \in DOMAIN t)
  /\ Get(s, "redirect_path") = Get(t, "redirect_path")
  /\ ("redirect_path" \in DOMAIN s) = ("redirect_path" \in DOMAIN t)

-----------------------------------------------------------------------------
-----------------------------------------------------------------------------
(* C2: handleCallback signals InvalidStateError (HTTP 400, detail         *)
(* "Invalid state parameter.") in the same way when session.oauthState is  *)
(* absent and when it differs from the query state: the same exception,    *)
(* the same answer of the route, no step after the state check; and        *)
(* session.user and session.redirectPath are as before the call.           *)
C2_InvalidStateSameForAbsentAndDiffering ==
  (IsCallback(call) /\ (StateAbsent(call.entry) \/ StateDiffers(call)))
    => /\ Done(call)
       /\ call.exc = HTTPException(400, "Invalid state parameter.")
       /\ call.response = RedirectResponse(Str("/failure"), 307)
       /\ call.steps = <<"state_check">>
       /\ SameUserAndRedirectPath(session, call.entry)

(* A callback that carries a state was rejected on a session that holds  *)
(* a user and a redirect path but no stored state.                         *)
C2_Witness ==
  /\ IsCallback(call) /\ Done(call)
  /\ StateAbsent(call.entry)
  /\ "state" \in DOMAIN call.query_params
  /\ "user" \in DOMAIN call.entry
  /\ "redirect_path" \in DOMAIN call.entry
  /\ call.exc = InvalidStateError

(* C3: replay protection. A handleCallback call that comes after a        *)
(* handleCallback call on the same session with the same query state,      *)
(* with no initiateLogin in between (other calls may lie in between), ends *)
(* in InvalidStateError without a token exchange, whether the first call   *)
(* succeeded, failed the state check, or failed at token exchange or       *)
(* profile fetch.                                                          *)
C3_ReplayedCallbackRejected ==
  (IsCallback(call) /\ call.query_params \in replayed)
    => /\ Done(call)
       /\ call.exc = InvalidStateError
       /\ ~Ran(call, "token_exchange")

(* The only state ever generated was carried by a callback that wrote the *)
(* user into the session; a later callback with the same query, with no    *)
(* initiateLogin in between, was rejected.                                 *)
C3_Witness ==
  /\ IsCallback(call) /\ Done(call)
  /\ issued = 1
  /\ call.query_params = [state |-> urandom_hex(1)]
  /\ call.query_params \in replayed
  /\ Get(call.entry, "user") = Profile1
  /\ call.exc = InvalidStateError

-----------------------------------------------------------------------------
(* C5: each initiateLogin that gets to generate a state stores a fresh    *)
(* one in session.oauthState, different from the state stored before and   *)
(* from every state generated before, in place of the one stored before;   *)
(* so the session never holds a state other than the latest generated one, *)
(* and a callback that carries an earlier state (the first call's, after   *)
(* two initiateLogin calls) is rejected with InvalidStateError: only the   *)
(* latest state passes the state check.                                    *)
C5_OnlyLatestStatePasses ==
  /\ (call.op = "social_login" /\ call.state # None)
       => /\ ~StateAbsent(session)
          /\ session["oauth_state"] = call.state
          /\ call.state # Get(call.entry, "oauth_state")
          /\ \A n \in 1..(issued - 1) : call.state # urandom_hex(n)
  /\ ~StateAbsent(session) => session["oauth_state"] = urandom_hex(issued)
  /\ \A n \in 1..(issued - 1) :
       (IsCallback(call) /\ Get(call.query_params, "state") = urandom_hex(n))
         => (Done(call) /\ call.exc = InvalidStateError)
  /\ PassedStateCheck(call)
       => Get(call.query_params, "state") = urandom_hex(issued)

(* After two initiateLogin calls and no callback since the second, a      *)
(* callback that carries the first call's state was rejected while the     *)
(* second call's state is stored.                                          *)
C5_Witness ==
  /\ issued = 2
  /\ IsCallback(call) /\ Done(call)
  /\ replayed = {}
  /\ call.query_params = [state |-> urandom_hex(1)]
  /\ Get(call.entry, "oauth_state") = urandom_hex(2)
  /\ call.exc = InvalidStateError

(* C6: a handleCallback with matching state, a token obtained and a       *)
(* profile P obtained ends with session.user = P (whatever user was there  *)
(* before), session.oauthState and session.redirectPath absent, and        *)
(* redirects to the redirectPath the session held at the start of the      *)
(* call, or to "/success" when it held none.                               *)
C6_SuccessfulCallback ==
  (IsCallback(call) /\ Done(call) /\ StateMatches(call)
     /\ call.token # None /\ Truthy(call.user_data))
    => /\ call.exc = None
       /\ "user" \in DOMAIN session /\ session["user"] = call.user_data
       /\ StateAbsent(session)
       /\ "redirect_path" \notin DOMAIN session
       /\ call.response =
            RedirectResponse(IF "redirect_path" \in DOMAIN call.entry
                             THEN call.entry["redirect_path"]
                             ELSE Str("/success"), 307)

(* A successful callback on a session that held another user and a        *)
(* redirect path.                                                          *)
C6_Witness ==
  /\ IsCallback(call) /\ Done(call) /\ StateMatches(call)
  /\ call.user_data = Profile2
  /\ Get(call.entry, "user") = Profile1
  /\ Get(call.entry, "redirect_path") = Str("/custom-redirect")
  /\ Get(session, "user") = Profile2
  /\ call.response = RedirectResponse(Str("/custom-redirect"), 307)

(* C7 as stated: every failing callback request is answered with a        *)
(* redirect to the failure path, never with an error: for an invalid       *)
(* state, for a rejected or failed token exchange of any provider          *)
(* (transport failures included), for a failed profile fetch.              *)
C7_FailingCallbackRedirectsToFailure ==
  (IsCallback(call) /\ Done(call) /\ ~Ran(call, "session_write")
     /\ call.provider \in OAuthProvider)
    => call.response = RedirectResponse(Str("/failure"), 307)

(* C8: when a callback passes the state check and then fails at token     *)
(* exchange or at profile fetch, session.user and session.redirectPath     *)
(* are as before the call, session.oauthState is absent, and the token     *)
(* exchange was attempted once; for LinkedIn every answer of the token     *)
(* endpoint with a status other than 200 is reported as an HTTPException   *)
(* (400) whose detail carries the upstream body.                           *)
C8_FailureAfterStateCheckLeavesUserAndRedirectPath ==
  /\ (IsCallback(call) /\ Done(call) /\ Ran(call, "token_exchange")
        /\ (call.token = None \/ ~Truthy(call.user_data)))
       => /\ SameUserAndRedirectPath(session, call.entry)
          /\ StateAbsent(session)
          /\ Count(call.steps, "token_exchange") = 1
          /\ Count(call.steps, "profile_fetch") <= 1
          /\ call.exc # None
  /\ (IsCallback(call) /\ Done(call) /\ call.provider = "linkedin"
        /\ call.token_reply # None /\ call.token_reply.kind = "response"
        /\ call.token_reply.status_code # 200)
       => /\ call.exc = HTTPException(400, "Failed to fetch access token: "
                                             \o call.token_reply.text)
          /\ ~Ran(call, "profile_fetch")

(* A LinkedIn callback on a session with a user and a redirect path       *)
(* passed the state check and got a 400 from the token endpoint.           *)
C8_Witness ==
  /\ IsCallback(call) /\ Done(call) /\ StateMatches(call)
  /\ call.provider = "linkedin"
  /\ call.token_reply # None /\ call.token_reply.status_code = 400
  /\ "user" \in DOMAIN call.entry
  /\ "redirect_path" \in DOMAIN call.entry

(* The provider given to the call is rejected as unsupported. *)
UnsupportedProviderError(f) ==
  /\ Done(f) /\ IsHTTPException(f.exc)
  /\ f.exc.detail \in {"Unsupported provider: " \o f.provider, "Invalid provider"}

C10_UserHasId ==
  "user" \in DOMAIN session => "id" \in DOMAIN session["user"]

-----------------------------------------------------------------------------
(* SpecHttp: overlapping requests of one browser. The application keeps   *)
(* the session in a signed cookie (SessionMiddleware, src/src/main.py):    *)
(* each request gets the dict decoded from the cookie it carries, the      *)
(* handlers work on that dict, and the dict is written back to the cookie  *)
(* when the response starts.                                               *)

(* The cookie the response leaves in the browser: the session when it is  *)
(* not empty, no cookie when it is empty and the request came with one,    *)
(* the browser's cookie as it is otherwise.                                *)
SessionSave(c, s, initial) ==
  IF s # EmptyDict THEN s
  ELSE IF initial # EmptyDict THEN EmptyDict
  ELSE c

Requests == 1..MaxRequests

HttpRedirectPathArgs == {None, Str("/custom-redirect")}

(* A request arrives with the browser's cookie; its handler runs up to    *)
(* its first await.                                                        *)
Receive(r, step) ==
  /\ ~reqs[r].open
  /\ reqs' = [reqs EXCEPT ![r] = Request(step.f, step.s, TRUE)]
  /\ UNCHANGED <<session, call, replayed, redirected, cookie>>

(* The handler of an open request resumes after an await. *)
Resume(r, step) ==
  /\ reqs' = [reqs EXCEPT ![r] = Request(step.f, step.s, TRUE)]
  /\ UNCHANGED <<session, call, replayed, redirected, cookie>>

Awaits(r, pc) ==
  /\ reqs[r].open
  /\ reqs[r].f.op = "auth_callback"
  /\ reqs[r].f.pc = pc

HttpSocialLogin(r) ==
  \E provider \in OAuthProvider, redirect_path \in HttpRedirectPathArgs,
     ok \in BOOLEAN :
    /\ issued < MaxStates
    /\ LET f == NewCall("social_login", provider, redirect_path, EmptyDict, cookie)
       IN Receive(r, social_login(initiate_social_login(f, cookie, issued + 1, ok)))
    /\ issued' = issued + 1

HttpAuthCallback(r) ==
  \E provider \in OAuthProvider, query_params \in QueryParams :
    LET f == NewCall("auth_callback", provider, None, query_params, cookie)
    IN /\ Receive(r, auth_callback(handle_oauth_callback(f, cookie)))
       /\ UNCHANGED issued

HttpTokenExchange(r) ==
  /\ Awaits(r, "get_token")
  /\ \E reply \in TokenEndpointReplies :
       Resume(r, auth_callback(get_token(reqs[r].f, reqs[r].s, reply)))
  /\ UNCHANGED issued

HttpProfileFetch(r) ==
  /\ Awaits(r, "fetch_user_data")
  /\ \E reply \in UserInfoReplies :
       Resume(r, handle_fetch_user_data(reqs[r].f, reqs[r].s, reply))
  /\ UNCHANGED issued

HttpUserData(r) ==
  /\ Awaits(r, "store_user")
  /\ Resume(r, auth_callback(handle_user_data(reqs[r].f, reqs[r].s)))
  /\ UNCHANGED issued

HttpLogout(r) ==
  /\ Receive(r, logout(NewCall("logout", "none", None, EmptyDict, cookie), cookie))
  /\ UNCHANGED issued

HttpSuccess(r) ==
  /\ Receive(r, success(NewCall("success", "none", None, EmptyDict, cookie), cookie))
  /\ UNCHANGED issued

HttpIndex(r) ==
  /\ Receive(r, index(NewCall("index", "none", None, EmptyDict, cookie), cookie))
  /\ UNCHANGED issued

(* The answer of a finished handler reaches the browser. A response (of   *)
(* the route, or made from an HTTPException) passes the SessionMiddleware, *)
(* which sets the cookie; any other exception is answered above it, with   *)
(* no cookie set.                                                          *)
HttpRespond(r) ==
  /\ reqs[r].open
  /\ Done(reqs[r].f)
  /\ cookie' = IF reqs[r].f.response # None \/ IsHTTPException(reqs[r].f.exc)
               THEN SessionSave(cookie, reqs[r].s, reqs[r].f.entry)
               ELSE cookie
  /\ reqs' = [reqs EXCEPT ![r] = NoRequest]
  /\ UNCHANGED <<session, call, replayed, redirected, issued>>

NextHttp ==
  \E r \in Requests :
    \/ HttpSocialLogin(r)
    \/ HttpAuthCallback(r)
    \/ HttpTokenExchange(r)
    \/ HttpProfileFetch(r)
    \/ HttpUserData(r)
    \/ HttpLogout(r)
    \/ HttpSuccess(r)
    \/ HttpIndex(r)
    \/ HttpRespond(r)

InitHttp ==
  /\ session = EmptyDict
  /\ call = NoCall
  /\ replayed = {}
  /\ redirected = None
  /\ issued = 0
  /\ cookie = EmptyDict
  /\ reqs = [r \in Requests |-> NoRequest]

SpecHttp == InitHttp /\ [][NextHttp]_vars

-----------------------------------------------------------------------------
(* C4 as stated: of two callback requests of one browser session that     *)
(* overlap and carry the same state, at most one passes the state check    *)
(* and reaches the token exchange, in every interleaving.                  *)
C4_AtMostOneOverlappingCallbackPasses ==
  \A r1, r2 \in Requests :
    (r1 # r2 /\ reqs[r1].open /\ reqs[r2].open
       /\ IsCallback(reqs[r1].f) /\ IsCallback(reqs[r2].f)
       /\ reqs[r1].f.query_params = reqs[r2].f.query_params)
      => ~(PassedStateCheck(reqs[r1].f) /\ PassedStateCheck(reqs[r2].f))

-----------------------------------------------------------------------------
(* C11 as stated: an initiateLogin that got past the provider check with  *)
(* a redirectPath p leaves session.redirectPath = p; one called without a  *)
(* redirectPath (none, or the empty one the code takes as none) leaves     *)
(* session.redirectPath absent.                                            *)
C11_RedirectPathStoredOrAbsent ==
  (call.op = "social_login" /\ call.state # None)
    => IF Truthy(call.redirect_path)
       THEN /\ "redirect_path" \in DOMAIN session
            /\ session["redirect_path"] = call.redirect_path
       ELSE "redirect_path" \notin DOMAIN session

(* C11 amended: an initiateLogin that got past the provider check with  *)
(* a non-empty redirectPath p leaves session.redirectPath = p, whatever    *)
(* was stored before; one called without a redirectPath (or with the empty *)
(* one) leaves session.redirectPath as it was: absent when it was absent,  *)
(* otherwise still the path stored earlier.                                *)
C11_RedirectPathStoredOrLeft ==
  (call.op = "social_login" /\ call.state # None)
    => IF Truthy(call.redirect_path)
       THEN /\ "redirect_path" \in DOMAIN session
            /\ session["redirect_path"] = call.redirect_path
       ELSE /\ ("redirect_path" \in DOMAIN session)
                 = ("redirect_path" \in DOMAIN call.entry)
            /\ Get(session, "redirect_path") = Get(call.entry, "redirect_path")

(* An initiateLogin with "/dashboard" on a session that held              *)
(* "/custom-redirect" left "/dashboard".                                   *)
C11_Witness ==
  /\ call.op = "social_login" /\ Done(call) /\ call.state # None
  /\ call.redirect_path = Str("/dashboard")
  /\ Get(call.entry, "redirect_path") = Str("/custom-redirect")
  /\ Get(session, "redirect_path") = Str("/dashboard")

(* C12: logout on any session (empty, holding a pending oauthState and/or *)
(* redirectPath, or holding a user as well) ends without an error, with    *)
(* the redirect to "/", and leaves the session empty; a logout applied to  *)
(* the session a logout left gives that same empty session.                *)
C12_LogoutClearsSession ==
  call.op = "logout"
    => /\ Done(call) /\ call.exc = None
       /\ call.response = RedirectResponse(Str("/"), 307)
       /\ session = EmptyDict
       /\ logout(NewCall("logout", "none", None, EmptyDict, session), session).s
            = session

(* A logout on a session that held a user, a pending state and a          *)
(* redirect path.                                                          *)
C12_Witness ==
  /\ call.op = "logout" /\ Done(call)
  /\ DOMAIN call.entry = {"user", "oauth_state", "redirect_path"}
  /\ session = EmptyDict

(* The call passed the state check, got a token and got a profile. *)
Authenticated(f) ==
  /\ IsCallback(f) /\ StateMatches(f)
  /\ Ran(f, "token_exchange") /\ f.token # None
  /\ Ran(f, "profile_fetch") /\ Truthy(f.user_data)

(* C13: session.user is absent at the start and after every logout, and   *)
(* the only step that makes it present, or changes it, is the session      *)
(* write of a handleCallback that passed the state check, completed the    *)
(* token exchange and obtained a profile (which it then holds): no         *)
(* initiateLogin, rejected callback or failed callback does.               *)
C13_UserOnlyAfterSuccessfulCallback ==
  /\ "user" \notin DOMAIN session
  /\ [][ /\ call'.op = "logout" => "user" \notin DOMAIN session'
         /\ ("user" \in DOMAIN session'
               /\ ("user" \notin DOMAIN session \/ session'["user"] # session["user"]))
              => /\ Authenticated(call')
                 /\ Ran(call', "session_write")
                 /\ ~Ran(call, "session_write")
                 /\ session'["user"] = call'.user_data ]_vars

(* A callback that passed the state check, got a token and a profile made *)
(* session.user present on a session that held none.                       *)
C13_Witness ==
  /\ Authenticated(call) /\ Done(call)
  /\ "user" \notin DOMAIN call.entry
  /\ "user" \in DOMAIN session /\ session["user"] = call.user_data

(* s is the start of t. *)
IsPrefix(s, t) == Len(s) <= Len(t) /\ SubSeq(t, 1, Len(s)) = s

(* C14: within one handleCallback the steps run in the order state check, *)
(* token exchange, profile fetch, session write, each at most once; the    *)
(* token exchange is attempted only after the state check passed, the      *)
(* profile fetch only with a token obtained in the same call, and          *)
(* session.user is written only after the profile fetch returned a         *)
(* profile: until then session.user is what it was at the start.           *)
C14_StepsInOrder ==
  IsCallback(call)
    => /\ IsPrefix(call.steps, <<"state_check", "token_exchange",
                                 "profile_fetch", "session_write">>)
       /\ Ran(call, "token_exchange")
            => (StateMatches(call) /\ call.exc # InvalidStateError)
       /\ Ran(call, "profile_fetch") => call.token # None
       /\ Ran(call, "session_write") => Truthy(call.user_data)
       /\ ~Ran(call, "session_write")
            => /\ Get(session, "user") = Get(call.entry, "user")
               /\ ("user" \in DOMAIN session) = ("user" \in DOMAIN call.entry)

(* A callback ran all four steps. *)
C14_Witness ==
  /\ IsCallback(call) /\ Done(call)
  /\ call.steps = <<"state_check", "token_exchange", "profile_fetch",
                    "session_write">>
  /\ Get(session, "user") = call.user_data

(* C15: the state that initiateLogin hands to the authorization redirect  *)
(* is the value it stored in session.oauthState; and a callback that       *)
(* carries the state of the session's last authorization redirect passes   *)
(* the state check when no initiateLogin, callback or logout ran on the    *)
(* session since that redirect (page requests may have).                   *)
C15_RedirectCarriesStoredState ==
  /\ (call.op = "social_login" /\ call.response # None)
       => /\ call.response.location.state = call.state
          /\ call.response.location.state = Get(session, "oauth_state")
          /\ redirected = call.response.location.state
  /\ (IsCallback(call) /\ redirected # None
        /\ Get(call.query_params, "state") = redirected)
       => PassedStateCheck(call)

(* A callback that carries the state of the second authorization redirect *)
(* passed the state check.                                                 *)
C15_Witness ==
  /\ IsCallback(call) /\ Done(call)
  /\ redirected = urandom_hex(2)
  /\ Get(call.query_params, "state") = redirected
  /\ Get(call.entry, "oauth_state") = redirected
  /\ PassedStateCheck(call)

(* C16: the page requests (/ and /success) read session.user and change   *)
(* no session key; /success shows the success page, with the user, when    *)
(* session.user is present and redirects to the failure page when it is    *)
(* absent (as it is after a logout or after failed login attempts on a     *)
(* session without a user, by C13).                                        *)
C16_PagesReadOnlyAndSuccessNeedsUser ==
  /\ call.op \in {"success", "index"}
       => /\ Done(call) /\ call.exc = None
          /\ session = call.entry
  /\ call.op = "index"
       => call.response = TemplateResponse("index.html", Get(session, "user"))
  /\ call.op = "success"
       => call.response =
            IF "user" \in DOMAIN session
            THEN TemplateResponse("success.html", session["user"])
            ELSE RedirectResponse(Str("/failure"), 307)

(* After two login attempts the session holds a pending state and no      *)
(* user: the request to /success was redirected to the failure page.       *)
C16_Witness ==
  /\ call.op = "success" /\ Done(call)
  /\ issued = 2
  /\ "oauth_state" \in DOMAIN session
  /\ "user" \notin DOMAIN session
  /\ call.response = RedirectResponse(Str("/failure"), 307)

(* C17: a redirectPath in the session stays as it is over every step,     *)
(* so over rejected and failed callbacks and over initiateLogin calls      *)
(* that supply none, except that an initiateLogin that supplies one puts   *)
(* its own in its place, a logout removes it, and the session write of a   *)
(* successful callback removes it and redirects to it, whichever           *)
(* initiateLogin stored it.                                                *)
C17_RedirectPathStaysUntilUsed ==
  [][ "redirect_path" \in DOMAIN session
        => \/ /\ "redirect_path" \in DOMAIN session'
              /\ session'["redirect_path"] = session["redirect_path"]
           \/ /\ call'.op = "social_login" /\ call'.state # None
              /\ Truthy(call'.redirect_path)
              /\ Get(session', "redirect_path") = call'.redirect_path
           \/ /\ call'.op = "logout"
              /\ "redirect_path" \notin DOMAIN session'
           \/ /\ Authenticated(call') /\ Ran(call', "session_write")
              /\ ~Ran(call, "session_write")
              /\ "redirect_path" \notin DOMAIN session'
              /\ call'.response
                   = RedirectResponse(session["redirect_path"], 307) ]_vars

(* A second initiateLogin, called without a redirectPath on a session    *)
(* that held "/custom-redirect", stored its state and left the path.       *)
C17_Witness ==
  /\ call.op = "social_login" /\ Done(call)
  /\ issued = 2 /\ call.state = urandom_hex(2)
  /\ call.redirect_path = None
  /\ Get(call.entry, "redirect_path") = Str("/custom-redirect")
  /\ Get(session, "redirect_path") = Str("/custom-redirect")

(* C18: no initiateLogin changes session.user (it neither removes it nor  *)
(* replaces it, whether it ends with the redirect or with an error), and   *)
(* a user in the session stays there over every step except the session   *)
(* write of a successful callback, which puts its profile in its place,    *)
(* and a logout, which removes it.                                         *)
C18_InitiateLoginKeepsUser ==
  [][ /\ call'.op = "social_login"
           => /\ Get(session', "user") = Get(session, "user")
              /\ ("user" \in DOMAIN session') = ("user" \in DOMAIN session)
      /\ "user" \in DOMAIN session
           => \/ /\ "user" \in DOMAIN session'
                 /\ session'["user"] = session["user"]
              \/ /\ call'.op = "logout"
                 /\ "user" \notin DOMAIN session'
              \/ /\ Authenticated(call') /\ Ran(call', "session_write")
                 /\ ~Ran(call, "session_write")
                 /\ Get(session', "user") = call'.user_data ]_vars

(* An initiateLogin on a session that held a user stored its state and    *)
(* left the user.                                                          *)
C18_Witness ==
  /\ call.op = "social_login" /\ Done(call)
  /\ call.state # None
  /\ Get(call.entry, "user") = Profile1
  /\ Get(session, "user") = Profile1
  /\ Get(session, "oauth_state") = call.state

=============================================================================
